---- MODULE Spec2Model ----
(***************************************************************************)
(* Model of the track-your-finance web client: the property page            *)
(* (PropertyDetail.tsx) with its client-side period filter and income /     *)
(* expense aggregation, and the Spending Diary's category presentation.     *)
(*                                                                          *)
(* Optional values of the TypeScript records (a field that may be           *)
(* undefined, a string that may be '') are sequences of length 0 or 1:      *)
(* <<>> is the falsy value, <<v>> the value v.                              *)
(* Amounts are integers; floating point rounding is not modelled.           *)
(***************************************************************************)
EXTENDS Integers, Sequences, FiniteSets, TLC

VARIABLES
    backend,          \* the server's real-estate transactions of the property
    transactions,     \* PropertyDetail state: the fetched transactions
    property,         \* PropertyDetail state: TRUE once a property is loaded
    loading,          \* PropertyDetail state
    error,            \* PropertyDetail state: <<>> or <<message>>
    filterFromDate,   \* PropertyDetail state: <<>> ('') or <<day>>
    filterToDate,     \* PropertyDetail state: <<>> ('') or <<day>>
    loads,            \* loadAllData calls whose Promise.all has not settled
    nLoads,           \* number of loadAllData calls made so far
    mutations,        \* create / delete requests that have not settled
    nMutations,       \* number of create / delete requests issued so far
    view,             \* what the last render of PropertyDetail shows
    categories,       \* SpendingDiary state: the fetched category list
    diaryTransactions,\* SpendingDiary state: the fetched page of transactions
    diaryLoading,     \* SpendingDiary state: loading
    diaryError,       \* SpendingDiary state: error ('' or a message)
    diaryRows,        \* what the last render of the diary's table shows
    modal,            \* which form component the page has mounted
    isOpen,           \* the form's isOpen prop
    editing,          \* the form's record prop: <<>> (null) or <<record>>
    formData,         \* the form's formData state
    formLoading,      \* the form's loading state
    formError,        \* the form's error state ('' or a message)
    request,          \* the create / update request in flight: <<>> or <<r>>
    onSaveCalled,     \* TRUE once the last submit has called onSave
    auth_token,       \* localStorage 'auth_token': <<>> (absent) or <<token>>
    user,             \* AuthProvider state: <<>> (null) or <<user>>
    token,            \* AuthProvider state: <<>> (null) or <<token>>
    authLoading,      \* AuthProvider state: loading
    authMounted,      \* TRUE once AuthProvider's mount effect has run
    authRequests,     \* backend requests that have not settled
    nAuthRequests,    \* number of login / register / page requests issued
    loginResult,      \* how the last settled login() promise ended: <<>> or <<r>>
    loggedOut,        \* TRUE from logout() until login() or register() is called
    route,            \* the router's location.pathname
    locationState,    \* the router's location.state: <<>> or <<message>>
    inviteMounted,    \* TRUE once AcceptInvitation's mount effect has run
    inviteForm,       \* AcceptInvitation state: formData
    inviteLoading,    \* AcceptInvitation state: isLoading
    inviteError,      \* AcceptInvitation state: error
    success,          \* AcceptInvitation state
    inviteRequest,    \* the accept-invitation request in flight: <<>> or <<r>>
    redirectTimers,   \* pending 1500 ms redirect timers of AcceptInvitation
    showLogin,        \* Landing state
    message,          \* Landing state
    typeFilter,       \* SpendingDiary state: 'ALL', 'INCOME' or 'EXPENSE'
    categoryFilter,   \* SpendingDiary state: <<>> ('') or <<category id>>
    dateFromFilter,   \* SpendingDiary state: <<>> ('') or <<day>>
    dateToFilter,     \* SpendingDiary state: <<>> ('') or <<day>>
    page,             \* SpendingDiary state
    totalTransactions,\* SpendingDiary state
    listRequest,      \* the object loadData's call handed to transactionsGet
                      \* and that has not been answered: <<>> or <<object>>
    clock,            \* the month and year new Date() returns
    currentMonth,     \* SpendingDiary state
    currentYear,      \* SpendingDiary state
    monthlyStats,     \* SpendingDiary state: <<>> (null) or <<stats>>
    categoryStats,    \* SpendingDiary state: <<>> ([]) or <<stats of a month>>
    statsLoading,     \* SpendingDiary state
    statsRequests,    \* loadMonthlyStats calls that have not finished
    nStatsRequests,   \* number of loadMonthlyStats calls made by clicks
    statsErrorLogged  \* TRUE once loadMonthlyStats has logged a failure

pageVars == <<backend, transactions, property, loading, error, filterFromDate,
              filterToDate, loads, nLoads, mutations, nMutations, view>>
diaryVars == <<categories, diaryTransactions, diaryLoading, diaryError, diaryRows>>
formVars == <<modal, isOpen, editing, formData, formLoading, formError, request,
              onSaveCalled>>
authVars == <<auth_token, user, token, authLoading, authMounted, authRequests,
              nAuthRequests, loginResult, loggedOut>>
inviteVars == <<route, locationState, inviteMounted, inviteForm, inviteLoading, inviteError,
                success, inviteRequest, redirectTimers, showLogin, message>>
listVars == <<typeFilter, categoryFilter, dateFromFilter, dateToFilter, page,
              totalTransactions, listRequest>>
statsVars == <<clock, currentMonth, currentYear, monthlyStats, categoryStats,
               statsLoading, statsRequests, nStatsRequests, statsErrorLogged>>
nonPageVars == <<diaryVars, formVars, authVars, inviteVars, listVars, statsVars>>
nonDiaryVars == <<pageVars, formVars, authVars, inviteVars, statsVars>>
nonFormVars == <<pageVars, diaryVars, authVars, inviteVars, listVars, statsVars>>
nonAuthVars == <<pageVars, diaryVars, formVars, inviteVars, listVars, statsVars>>
nonInviteVars == <<pageVars, diaryVars, formVars, authVars, listVars, statsVars>>
nonStatsVars == <<pageVars, diaryVars, formVars, authVars, inviteVars, listVars>>
vars == <<backend, transactions, property, loading, error, filterFromDate,
          filterToDate, loads, nLoads, mutations, nMutations, view, categories,
          diaryTransactions, diaryLoading, diaryError, diaryRows, modal, isOpen,
          editing, formData, formLoading, formError, request, onSaveCalled,
          auth_token, user, token, authLoading, authMounted, authRequests,
          nAuthRequests, loginResult, loggedOut, route, locationState, inviteMounted,
          inviteForm, inviteLoading, inviteError, success, inviteRequest, redirectTimers,
          showLogin, message, typeFilter, categoryFilter, dateFromFilter,
          dateToFilter, page, totalTransactions, listRequest, clock, currentMonth,
          currentYear, monthlyStats, categoryStats, statsLoading, statsRequests,
          nStatsRequests, statsErrorLogged>>

(***************************************************************************)
(* Bounds of the model.                                                     *)
(***************************************************************************)
MaxDay == 2        \* transactions are dated on days 1..MaxDay
MaxLen == 2        \* longest transaction list drawn as an input
MaxSeed == 1       \* longest transaction list the server starts with
MaxLoads == 2      \* loadAllData calls in one run of the page
MaxMutations == 1  \* create and delete requests in one run of the page
MaxCategories == 2 \* categories the server holds
MaxDiaryLen == 2   \* longest page of diary transactions the server returns
MaxAuthRequests == 3 \* login, register and page requests issued in one run
MaxRedirectTimers == 2 \* redirect timers AcceptInvitation has pending at once
MaxPages == 3      \* pages of diary transactions the server reports
MaxStatsRequests == 2 \* month clicks in one run of the Spending Diary

(***************************************************************************)
(* Dates.  An ISO timestamp is [day, hour] in UTC; new Date(...) turns it   *)
(* into a number of hours since the epoch.  A date-only string              *)
(* 'YYYY-MM-DD' (the value of an <input type="date">) is a day number, and  *)
(* new Date('YYYY-MM-DD') is that day's midnight UTC.                       *)
(***************************************************************************)
HoursPerDay == 24
NoonHour == 12     \* the forms save dates as <date>T12:00:00.000Z

NewDate(iso) == iso.day * HoursPerDay + iso.hour
NewDateOnly(day) == day * HoursPerDay
FullDateTime(day) == [day |-> day, hour |-> NoonHour]

Days == 1..MaxDay
Hours == {0, NoonHour}
BoundDays == 1..(MaxDay + 1)
FilterValues == {<<>>} \cup {<<d>> : d \in BoundDays}

INCOME == "INCOME"
EXPENSE == "EXPENSE"
NOTYPE == "NOTYPE"    \* a type that is undefined or neither enum member

(***************************************************************************)
(* The transactions the server may hold: incomes dated at midnight and at   *)
(* noon of every day, expenses dated at noon (as the forms save them), and  *)
(* undated entries of every kind, with and without an amount.               *)
(***************************************************************************)
KindAmounts ==
    {<<INCOME, <<100>>>>, <<INCOME, <<>>>>, <<EXPENSE, <<40>>>>, <<NOTYPE, <<40>>>>}
Shape(type, amount, ts) == [type |-> type, amount |-> amount, transaction_date |-> ts]
EntryShapes ==
    {Shape(INCOME, <<100>>, <<[day |-> d, hour |-> h]>>) : d \in Days, h \in Hours}
    \cup {Shape(EXPENSE, <<40>>, <<FullDateTime(d)>>) : d \in Days}
    \cup {Shape(ka[1], ka[2], <<>>) : ka \in KindAmounts}
WithId(shape, i) ==
    [id |-> i, type |-> shape.type, amount |-> shape.amount,
     transaction_date |-> shape.transaction_date]
ListsOfLen(n) == {[i \in 1..n |-> WithId(f[i], i)] : f \in [1..n -> EntryShapes]}
ListsUpTo(n) == UNION {ListsOfLen(k) : k \in 0..n}

(***************************************************************************)
(* PropertyDetail.tsx, lines 162-194: the values derived on every render.   *)
(***************************************************************************)
KeepsDropUndated(t, fromStr, toStr) ==
    IF t.transaction_date = <<>> THEN fromStr = <<>> /\ toStr = <<>>
    ELSE LET transactionDate == NewDate(t.transaction_date[1])
         IN  /\ ~(fromStr # <<>> /\ transactionDate < NewDateOnly(fromStr[1]))
             /\ ~(toStr # <<>> /\ transactionDate > NewDateOnly(toStr[1]))
\* the callback of transactions.filter
Keeps(t, fromStr, toStr) ==
    IF t.transaction_date = <<>> THEN TRUE
    ELSE LET transactionDate == NewDate(t.transaction_date[1])
             fromDate == IF fromStr # <<>> THEN <<NewDateOnly(fromStr[1])>> ELSE <<>>
             toDate == IF toStr # <<>> THEN <<NewDateOnly(toStr[1])>> ELSE <<>>
         IN  IF fromDate # <<>> /\ transactionDate < fromDate[1] THEN FALSE
             ELSE IF toDate # <<>> /\ transactionDate > toDate[1] THEN FALSE
             ELSE TRUE

RECURSIVE Reverse(_)
Reverse(s) == IF s = <<>> THEN <<>> ELSE Append(Reverse(Tail(s)), Head(s))

filteredTransactionsReversed(txs, fromStr, toStr) ==
    Reverse(SelectSeq(txs, LAMBDA t : Keeps(t, fromStr, toStr)))
filteredTransactions(txs, fromStr, toStr) ==
    SelectSeq(txs, LAMBDA t : Keeps(t, fromStr, toStr))

\* (t.amount || 0)
AmountOrZero(t) == IF t.amount = <<>> \/ t.amount[1] = 0 THEN 0 ELSE t.amount[1]

\* .reduce((sum, t) => sum + (t.amount || 0), 0)
RECURSIVE ReduceSum(_)
ReduceSum(txs) ==
    IF txs = <<>> THEN 0
    ELSE ReduceSum(SubSeq(txs, 1, Len(txs) - 1)) + AmountOrZero(txs[Len(txs)])

SumOfType(txs, type) == ReduceSum(SelectSeq(txs, LAMBDA t : t.type = type))

totalIncome(txs) == SumOfType(txs, INCOME)
totalExpenseOfIncome(txs) == SumOfType(txs, INCOME)
totalExpense(txs) == SumOfType(txs, EXPENSE)
filteredIncomeUnfiltered(txs, fromStr, toStr) == SumOfType(txs, INCOME)
filteredIncome(txs, fromStr, toStr) ==
    SumOfType(filteredTransactions(txs, fromStr, toStr), INCOME)
filteredExpense(txs, fromStr, toStr) ==
    SumOfType(filteredTransactions(txs, fromStr, toStr), EXPENSE)
balanceClamped(txs) ==
    IF totalIncome(txs) < totalExpense(txs) THEN 0
    ELSE totalIncome(txs) - totalExpense(txs)
balance(txs) == totalIncome(txs) - totalExpense(txs)

(***************************************************************************)
(* The render of PropertyDetail (lines 137-160 and 199-718): the loading    *)
(* and error screens return early; the detail screen shows the cards, the   *)
(* header count, the filtered sums (only with a bound set) and the list.    *)
(***************************************************************************)
Render(txs, prop, isLoading, err, fromStr, toStr) ==
    IF isLoading THEN [screen |-> "loading"]
    ELSE IF err # <<>> \/ ~prop THEN [screen |-> "error"]
    ELSE LET income == filteredIncome(txs, fromStr, toStr)
             expense == filteredExpense(txs, fromStr, toStr)
         IN  [screen |-> "detail",
              totalIncome |-> totalIncome(txs),
              totalExpense |-> totalExpense(txs),
              balance |-> balance(txs),
              headerCount |-> Len(txs),
              showFilteredSums |-> (fromStr # <<>> \/ toStr # <<>>),
              filteredIncome |-> income,
              filteredExpense |-> expense,
              filteredBalance |-> income - expense,
              list |-> filteredTransactions(txs, fromStr, toStr)]

(***************************************************************************)
(* The date inputs and the Clear Filters button (lines 552-590).            *)
(***************************************************************************)
NewLoad(n) == [n |-> n, phase |-> "sent", snap |-> <<>>]

\* as if filterFromDate were a dependency of the useEffect that loads the page
SetFilterFromDateReloads ==
    /\ view.screen = "detail"
    /\ \E v \in FilterValues :
        /\ filterFromDate' = v
        /\ nLoads' = nLoads + 1
        /\ loads' = loads \cup {NewLoad(nLoads + 1)}
        /\ loading' = TRUE
        /\ error' = <<>>
        /\ view' = Render(transactions, property, TRUE, <<>>, v, filterToDate)
        /\ UNCHANGED <<backend, transactions, property, filterToDate, mutations,
                       nMutations>>
        /\ UNCHANGED nonPageVars

SetFilterFromDate ==
    /\ view.screen = "detail"
    /\ \E v \in FilterValues :
        /\ filterFromDate' = v
        /\ view' = Render(transactions, property, loading, error, v, filterToDate)
        /\ UNCHANGED <<backend, transactions, property, loading, error,
                       filterToDate, loads, nLoads, mutations, nMutations>>
        /\ UNCHANGED nonPageVars

SetFilterToDate ==
    /\ view.screen = "detail"
    /\ \E v \in FilterValues :
        /\ filterToDate' = v
        /\ view' = Render(transactions, property, loading, error, filterFromDate, v)
        /\ UNCHANGED <<backend, transactions, property, loading, error,
                       filterFromDate, loads, nLoads, mutations, nMutations>>
        /\ UNCHANGED nonPageVars

ClearFilters ==
    /\ view.screen = "detail"
    /\ filterFromDate' = <<>>
    /\ filterToDate' = <<>>
    /\ view' = Render(transactions, property, loading, error, <<>>, <<>>)
    /\ UNCHANGED <<backend, transactions, property, loading, error, loads, nLoads,
                   mutations, nMutations>>
    /\ UNCHANGED nonPageVars

(***************************************************************************)
(* loadAllData (lines 40-67).  The call sets loading and clears error, then *)
(* awaits the five requests of Promise.all; the server answers the          *)
(* transaction list request with its list at that moment (limit 100 is      *)
(* above every list of the model).  When the promise settles the call       *)
(* stores the answer, or the error message, and clears loading.             *)
(***************************************************************************)
LoadFailedMessage == "Failed to load property details"

\* the server reads its list for a load that was sent
AnswerLoad ==
    \E l \in loads :
        /\ l.phase = "sent"
        /\ loads' = (loads \ {l}) \cup {[n |-> l.n, phase |-> "answered", snap |-> backend]}
        /\ UNCHANGED <<backend, transactions, property, loading, error, filterFromDate,
                       filterToDate, nLoads, mutations, nMutations, view>>
        /\ UNCHANGED nonPageVars

\* Promise.all resolves: lines 56-60 and the finally block
LoadSucceeds ==
    \E l \in loads :
        /\ l.phase = "answered"
        /\ loads' = loads \ {l}
        /\ transactions' = l.snap
        /\ property' = TRUE
        /\ loading' = FALSE
        /\ view' = Render(l.snap, TRUE, FALSE, error, filterFromDate, filterToDate)
        /\ UNCHANGED <<backend, error, filterFromDate, filterToDate, nLoads,
                       mutations, nMutations>>
        /\ UNCHANGED nonPageVars

\* Promise.all rejects: the catch and the finally block
LoadFails ==
    \E l \in loads :
        /\ loads' = loads \ {l}
        /\ error' = <<LoadFailedMessage>>
        /\ loading' = FALSE
        /\ view' = Render(transactions, property, FALSE, <<LoadFailedMessage>>,
                          filterFromDate, filterToDate)
        /\ UNCHANGED <<backend, transactions, property, filterFromDate, filterToDate,
                       nLoads, mutations, nMutations>>
        /\ UNCHANGED nonPageVars

\* handleTenantSave, handleInspectionSave, handleMortgageSave and the delete
\* handlers of tenants, inspections and mortgages: each reloads the page
ReloadAfterOtherSave ==
    /\ view.screen = "detail"
    /\ nLoads + Cardinality(mutations) < MaxLoads
    /\ nLoads' = nLoads + 1
    /\ loads' = loads \cup {NewLoad(nLoads + 1)}
    /\ loading' = TRUE
    /\ error' = <<>>
    /\ view' = Render(transactions, property, TRUE, <<>>, filterFromDate, filterToDate)
    /\ UNCHANGED <<backend, transactions, property, filterFromDate, filterToDate,
                   mutations, nMutations>>
    /\ UNCHANGED nonPageVars

(***************************************************************************)
(* RealEstateTransactionModal.handleSubmit in create mode and               *)
(* handleDeleteTransaction: the request is sent from the detail screen;     *)
(* when it succeeds the server's list changes and the page calls            *)
(* loadAllData (handleTransactionSave, line 85; line 129); when it fails    *)
(* nothing is reloaded.                                                     *)
(***************************************************************************)
FormInputs == {<<INCOME, 100>>, <<EXPENSE, 40>>}

SubmitCreate ==
    /\ view.screen = "detail"
    /\ nLoads + Cardinality(mutations) < MaxLoads
    /\ nMutations < MaxMutations
    /\ \E input \in FormInputs, d \in Days :
        /\ input[2] > 0
        /\ nMutations' = nMutations + 1
        /\ mutations' = mutations \cup
              {[n |-> nMutations + 1, op |-> "create", id |-> 0,
                data |-> Shape(input[1], <<input[2]>>, <<FullDateTime(d)>>)]}
        /\ UNCHANGED <<backend, transactions, property, loading, error, filterFromDate,
                       filterToDate, loads, nLoads, view>>
        /\ UNCHANGED nonPageVars

ClickDelete ==
    /\ view.screen = "detail"
    /\ nLoads + Cardinality(mutations) < MaxLoads
    /\ nMutations < MaxMutations
    /\ \E i \in 1..Len(transactions) :
        /\ \E j \in 1..Len(view.list) : view.list[j].id = transactions[i].id
        /\ nMutations' = nMutations + 1
        /\ mutations' = mutations \cup
              {[n |-> nMutations + 1, op |-> "delete", id |-> transactions[i].id,
                data |-> Shape(NOTYPE, <<>>, <<>>)]}
        /\ UNCHANGED <<backend, transactions, property, loading, error, filterFromDate,
                       filterToDate, loads, nLoads, view>>
        /\ UNCHANGED nonPageVars

ApplyMutation(m, list) ==
    IF m.op = "create" THEN Append(list, WithId(m.data, MaxSeed + m.n))
    ELSE SelectSeq(list, LAMBDA t : t.id # m.id)

MutationSucceeds ==
    \E m \in mutations :
        /\ mutations' = mutations \ {m}
        /\ backend' = ApplyMutation(m, backend)
        /\ nLoads' = nLoads + 1
        /\ loads' = loads \cup {NewLoad(nLoads + 1)}
        /\ loading' = TRUE
        /\ error' = <<>>
        /\ view' = Render(transactions, property, TRUE, <<>>, filterFromDate, filterToDate)
        /\ UNCHANGED <<transactions, property, filterFromDate, filterToDate, nMutations>>
        /\ UNCHANGED nonPageVars

MutationFails ==
    \E m \in mutations :
        /\ mutations' = mutations \ {m}
        /\ UNCHANGED <<backend, transactions, property, loading, error, filterFromDate,
                       filterToDate, loads, nLoads, nMutations, view>>
        /\ UNCHANGED nonPageVars

(***************************************************************************)
(* The form components and the state of a form that is not in use.          *)
(***************************************************************************)
TRANSACTION == "TransactionModal"
REALESTATE == "RealEstateTransactionModal"
CATEGORY == "CategoryModal"
TENANT == "TenantModal"
Modals == {TRANSACTION, REALESTATE, CATEGORY, TENANT}

\* useState initial value of formData
DefaultFormData ==
    [name |-> "", amount |-> "", type |-> EXPENSE, category_id |-> <<>>,
     property_id |-> <<>>, deposit_amount |-> 0]

\* no form is in use
FormIdle ==
    /\ modal = TRANSACTION
    /\ isOpen = FALSE
    /\ editing = <<>>
    /\ formData = DefaultFormData
    /\ formLoading = FALSE
    /\ formError = ""
    /\ request = <<>>
    /\ onSaveCalled = FALSE

\* AuthProvider after start-up with nothing stored and nobody logged in
AuthIdle ==
    /\ auth_token = <<>>
    /\ user = <<>>
    /\ token = <<>>
    /\ authLoading = FALSE
    /\ authMounted = TRUE
    /\ authRequests = {}
    /\ nAuthRequests = 0
    /\ loginResult = <<>>
    /\ loggedOut = FALSE

ACCEPT_INVITATION == "/accept-invitation"
LANDING == "/"
DASHBOARD == "/dashboard"
LOGIN == "/login"

\* useState initial value of AcceptInvitation's formData, for a URL token
InviteFormData(urlToken) == [password |-> "", confirmPassword |-> "", token |-> urlToken]

\* the user is not on the invitation page and Landing shows no modal
InviteIdle ==
    /\ route = DASHBOARD
    /\ locationState = <<>>
    /\ inviteMounted = FALSE
    /\ inviteForm = InviteFormData(<<>>)
    /\ inviteLoading = FALSE
    /\ inviteError = ""
    /\ success = ""
    /\ inviteRequest = <<>>
    /\ redirectTimers = 0
    /\ showLogin = FALSE
    /\ message = ""

PageIdle ==
    /\ backend = <<>>
    /\ transactions = <<>>
    /\ property = FALSE
    /\ loading = TRUE
    /\ error = <<>>
    /\ filterFromDate = <<>>
    /\ filterToDate = <<>>
    /\ loads = {}
    /\ nLoads = 0
    /\ mutations = {}
    /\ nMutations = 0
    /\ view = Render(<<>>, FALSE, TRUE, <<>>, <<>>, <<>>)

DiaryIdle ==
    /\ categories = <<>>
    /\ diaryTransactions = <<>>
    /\ diaryLoading = FALSE
    /\ diaryError = <<>>
    /\ diaryRows = <<>>

ALL == "ALL"

\* the Spending Diary shows page 1 with no filter set and no list request
\* in flight
ListIdle ==
    /\ typeFilter = ALL
    /\ categoryFilter = <<>>
    /\ dateFromFilter = <<>>
    /\ dateToFilter = <<>>
    /\ page = 1
    /\ totalTransactions = 0
    /\ listRequest = <<>>

\* new Date() at the mount of the Spending Diary
ClockYear == 2026
MonthsPerYear == 12
ClockMonths == {1, 6, MonthsPerYear}

\* what the server returns for a month: statsApi.monthly(year, month), and
\* statsApi.categories for the first and last day of that month
StatsOf(yr, mon) == [year |-> yr, month |-> mon]

\* the monthly overview shows the current month, loaded, with no statistics
\* request in flight
StatsIdle ==
    /\ clock = [year |-> ClockYear, month |-> 6]
    /\ currentMonth = clock.month
    /\ currentYear = clock.year
    /\ monthlyStats = <<StatsOf(clock.year, clock.month)>>
    /\ categoryStats = <<StatsOf(clock.year, clock.month)>>
    /\ statsLoading = FALSE
    /\ statsRequests = {}
    /\ nStatsRequests = 0
    /\ statsErrorLogged = FALSE

(***************************************************************************)
(* The property page from its mount: useEffect (lines 36-38) has called     *)
(* loadAllData once.                                                        *)
(***************************************************************************)
SeedShapes == {Shape(EXPENSE, <<40>>, <<>>)}
SeedLists ==
    UNION {{[i \in 1..k |-> WithId(f[i], i)] : f \in [1..k -> SeedShapes]} : k \in 0..MaxSeed}

Init ==
    /\ backend \in SeedLists
    /\ transactions = <<>>
    /\ property = FALSE
    /\ loading = TRUE
    /\ error = <<>>
    /\ filterFromDate = <<>>
    /\ filterToDate = <<>>
    /\ loads = {NewLoad(1)}
    /\ nLoads = 1
    /\ mutations = {}
    /\ nMutations = 0
    /\ view = Render(<<>>, FALSE, TRUE, <<>>, <<>>, <<>>)
    /\ categories = <<>>
    /\ diaryTransactions = <<>>
    /\ diaryLoading = FALSE
    /\ diaryError = <<>>
    /\ diaryRows = <<>>
    /\ FormIdle
    /\ AuthIdle
    /\ InviteIdle
    /\ ListIdle
    /\ StatsIdle

Next ==
    \/ AnswerLoad
    \/ LoadSucceeds
    \/ LoadFails
    \/ ReloadAfterOtherSave
    \/ SubmitCreate
    \/ ClickDelete
    \/ MutationSucceeds
    \/ MutationFails
    \/ SetFilterFromDate
    \/ SetFilterToDate
    \/ ClearFilters

Spec == Init /\ [][Next]_vars

(***************************************************************************)
(* The filter and the aggregation as functions of their inputs: the page    *)
(* shows a fetched list drawn from the bounded inputs, and the user moves   *)
(* the bounds.                                                              *)
(***************************************************************************)
InitFilter ==
    /\ transactions \in ListsUpTo(MaxLen)
    /\ backend = transactions
    /\ property = TRUE
    /\ loading = FALSE
    /\ error = <<>>
    /\ filterFromDate = <<>>
    /\ filterToDate = <<>>
    /\ loads = {}
    /\ nLoads = 1
    /\ mutations = {}
    /\ nMutations = 0
    /\ view = Render(transactions, TRUE, FALSE, <<>>, <<>>, <<>>)
    /\ categories = <<>>
    /\ diaryTransactions = <<>>
    /\ diaryLoading = FALSE
    /\ diaryError = <<>>
    /\ diaryRows = <<>>
    /\ FormIdle
    /\ AuthIdle
    /\ InviteIdle
    /\ ListIdle
    /\ StatsIdle

NextFilter == SetFilterFromDate \/ SetFilterToDate \/ ClearFilters

SpecFilter == InitFilter /\ [][NextFilter]_vars

(***************************************************************************)
(* The property page after its mount load has completed, with no filter     *)
(* set: the user saves and deletes while earlier requests are still in      *)
(* flight.  The loads of the run are counted from this state on.  A delete  *)
(* is awaited with the detail screen still shown (lines 125-135), so a      *)
(* second save or delete can be started before the first has been answered, *)
(* and every answer calls loadAllData whatever the page shows by then.      *)
(***************************************************************************)
InitReload ==
    /\ backend \in SeedLists
    /\ transactions = backend
    /\ property = TRUE
    /\ loading = FALSE
    /\ error = <<>>
    /\ filterFromDate = <<>>
    /\ filterToDate = <<>>
    /\ loads = {}
    /\ nLoads = 0
    /\ mutations = {}
    /\ nMutations = 0
    /\ view = Render(transactions, TRUE, FALSE, <<>>, <<>>, <<>>)
    /\ categories = <<>>
    /\ diaryTransactions = <<>>
    /\ diaryLoading = FALSE
    /\ diaryError = <<>>
    /\ diaryRows = <<>>
    /\ FormIdle
    /\ AuthIdle
    /\ InviteIdle
    /\ ListIdle
    /\ StatsIdle

NextReload ==
    \/ AnswerLoad
    \/ LoadSucceeds
    \/ LoadFails
    \/ ReloadAfterOtherSave
    \/ SubmitCreate
    \/ ClickDelete
    \/ MutationSucceeds
    \/ MutationFails

SpecReload == InitReload /\ [][NextReload]_vars

(***************************************************************************)
(* SpendingDiary: getCategoryName and getCategoryColor, and the table rows  *)
(* that show them.  A category is [id, name, color] with name and color     *)
(* optional; a transaction's category_id is <<>> or <<id>>.                 *)
(***************************************************************************)
Unknown == "Unknown"
NeutralColor == "#gray-500"

\* categories.find(c => c.id === categoryId): <<>> (undefined) or <<first match>>
Find(cats, categoryId) ==
    LET hits == {i \in 1..Len(cats) : cats[i].id = categoryId}
    IN  IF hits = {} THEN <<>>
        ELSE <<cats[CHOOSE i \in hits : \A j \in hits : i <= j]>>

getCategoryNameNoGuard(cats, categoryId) ==
    LET category == Find(cats, IF categoryId = <<>> THEN 0 ELSE categoryId[1])
    IN  IF category = <<>> THEN ""
        ELSE IF category[1].name = <<>> THEN Unknown ELSE category[1].name[1]
getCategoryName(cats, categoryId) ==
    IF categoryId = <<>> THEN Unknown
    ELSE LET category == Find(cats, categoryId[1])
         IN  IF category = <<>> \/ category[1].name = <<>> THEN Unknown
             ELSE category[1].name[1]

getCategoryColor(cats, categoryId) ==
    IF categoryId = <<>> THEN NeutralColor
    ELSE LET category == Find(cats, categoryId[1])
         IN  IF category = <<>> \/ category[1].color = <<>> THEN NeutralColor
             ELSE category[1].color[1]

DiaryRows(txs, cats) ==
    [i \in 1..Len(txs) |->
        [name |-> getCategoryName(cats, txs[i].category_id),
         color |-> getCategoryColor(cats, txs[i].category_id)]]

CategoryIds == 1..MaxCategories
UnknownCategoryId == MaxCategories + 1
CategoryNames == {<<>>, <<"Salary">>}
CategoryColors == {<<>>, <<"#ff0000">>}
\* the server's categories have distinct ids
CategoryLists ==
    UNION {{f \in [1..k -> [id : CategoryIds, name : CategoryNames, color : CategoryColors]] :
               \A i, j \in 1..k : i # j => f[i].id # f[j].id} : k \in 0..MaxCategories}
DiaryCategoryRefs == {<<>>} \cup {<<c>> : c \in CategoryIds \cup {UnknownCategoryId}}
DiaryLists ==
    UNION {[1..k -> [category_id : DiaryCategoryRefs]] : k \in 0..MaxDiaryLen}

(***************************************************************************)
(* loadData (part_002 lines 51-89) and transactionsApi.list (part_003       *)
(* lines 132-152).  loadData builds params from the page and the filters;   *)
(* list builds from params the object it hands to the generated client's    *)
(* transactionsGet.  A property that is undefined or not set is <<>>.       *)
(***************************************************************************)
PageLimit == 10      \* const [limit] = useState(10)
DefaultLimit == 20   \* params.limit || 20

Truthy(x) == x # <<>> /\ x[1] # 0

LoadDataParams(pg, tf, cf, df, dt) ==
    [limit |-> <<PageLimit>>,
     offset |-> <<(pg - 1) * PageLimit>>,
     page |-> <<>>,
     type |-> IF tf # ALL THEN <<tf>> ELSE <<>>,
     categoryId |-> cf,
     fromDate |-> df,
     toDate |-> dt]

TransactionsGetRequest(params) ==
    [offset |-> IF Truthy(params.page)
                THEN <<(params.page[1] - 1) *
                       (IF Truthy(params.limit) THEN params.limit[1] ELSE DefaultLimit)>>
                ELSE <<>>,
     limit |-> params.limit,
     categoryId |-> params.categoryId,
     fromDate |-> params.fromDate,
     toDate |-> params.toDate]

\* the mount effect's loadData: page 1, no filter
MountListRequest == TransactionsGetRequest(LoadDataParams(1, ALL, <<>>, <<>>, <<>>))

\* the effect of lines 43-45 after a render with a new page or filter:
\* loadData up to its await; the spinner replaces the table
loadData(pg, tf, cf, df, dt) ==
    /\ diaryLoading' = TRUE
    /\ listRequest' = <<TransactionsGetRequest(LoadDataParams(pg, tf, cf, df, dt))>>
    /\ diaryRows' = <<>>
    /\ UNCHANGED <<categories, diaryTransactions, diaryError, totalTransactions>>
    /\ UNCHANGED nonDiaryVars

\* Promise.all resolves: lines 79-82 and the finally block
loadDataResolves(cats, txs, total) ==
    /\ diaryTransactions' = txs
    /\ totalTransactions' = total
    /\ categories' = cats
    /\ diaryError' = <<>>
    /\ diaryLoading' = FALSE
    /\ listRequest' = <<>>
    /\ diaryRows' = DiaryRows(txs, cats)
    /\ UNCHANGED <<typeFilter, categoryFilter, dateFromFilter, dateToFilter, page>>
    /\ UNCHANGED nonDiaryVars

\* the totals the server reports: none, and enough for 1..MaxPages pages
DiaryTotals == {0} \cup {(p - 1) * PageLimit + 5 : p \in 1..MaxPages}

DiaryLoadSucceeds ==
    /\ diaryLoading
    /\ \E cats \in CategoryLists, txs \in DiaryLists, total \in DiaryTotals :
        loadDataResolves(cats, txs, total)

\* loadData rejects (the catch and the finally block)
DiaryLoadFails ==
    /\ diaryLoading
    /\ diaryLoading' = FALSE
    /\ diaryError' = <<"Failed to load transactions">>
    /\ listRequest' = <<>>
    /\ diaryRows' = DiaryRows(diaryTransactions, categories)
    /\ UNCHANGED <<categories, diaryTransactions, typeFilter, categoryFilter,
                   dateFromFilter, dateToFilter, page, totalTransactions>>
    /\ UNCHANGED nonDiaryVars

InitDiary ==
    /\ backend = <<>>
    /\ transactions = <<>>
    /\ property = FALSE
    /\ loading = TRUE
    /\ error = <<>>
    /\ filterFromDate = <<>>
    /\ filterToDate = <<>>
    /\ loads = {}
    /\ nLoads = 0
    /\ mutations = {}
    /\ nMutations = 0
    /\ view = Render(<<>>, FALSE, TRUE, <<>>, <<>>, <<>>)
    /\ categories = <<>>
    /\ diaryTransactions = <<>>
    /\ diaryLoading = TRUE
    /\ diaryError = <<>>
    /\ diaryRows = <<>>
    /\ typeFilter = ALL
    /\ categoryFilter = <<>>
    /\ dateFromFilter = <<>>
    /\ dateToFilter = <<>>
    /\ page = 1
    /\ totalTransactions = 0
    /\ listRequest = <<MountListRequest>>
    /\ FormIdle
    /\ AuthIdle
    /\ InviteIdle
    /\ StatsIdle

NextDiary == DiaryLoadSucceeds \/ DiaryLoadFails

SpecDiary == InitDiary /\ [][NextDiary]_vars

(***************************************************************************)
(* The Spending Diary's filters (part_002 lines 388-453) and pagination     *)
(* (lines 557-610).  They are rendered once loading is false; a change      *)
(* re-renders the page and the effect of lines 43-45 calls loadData with    *)
(* the new values.  The server's answers are drawn from a few category      *)
(* lists and pages.                                                         *)
(***************************************************************************)
TypeFilters == {ALL, INCOME, EXPENSE}
\* a date input is empty or holds a day
DiaryDateValues == {<<>>, <<MaxDay>>}
CategoryFilterOptions(cats) == {<<>>} \cup {<<cats[i].id>> : i \in 1..Len(cats)}

SetTypeFilter ==
    /\ ~diaryLoading
    /\ \E v \in TypeFilters \ {typeFilter} :
        /\ typeFilter' = v
        /\ UNCHANGED <<categoryFilter, dateFromFilter, dateToFilter, page>>
        /\ loadData(page, v, categoryFilter, dateFromFilter, dateToFilter)

SetCategoryFilter ==
    /\ ~diaryLoading
    /\ \E v \in CategoryFilterOptions(categories) \ {categoryFilter} :
        /\ categoryFilter' = v
        /\ UNCHANGED <<typeFilter, dateFromFilter, dateToFilter, page>>
        /\ loadData(page, typeFilter, v, dateFromFilter, dateToFilter)

SetDateFromFilter ==
    /\ ~diaryLoading
    /\ \E v \in DiaryDateValues \ {dateFromFilter} :
        /\ dateFromFilter' = v
        /\ UNCHANGED <<typeFilter, categoryFilter, dateToFilter, page>>
        /\ loadData(page, typeFilter, categoryFilter, v, dateToFilter)

SetDateToFilter ==
    /\ ~diaryLoading
    /\ \E v \in DiaryDateValues \ {dateToFilter} :
        /\ dateToFilter' = v
        /\ UNCHANGED <<typeFilter, categoryFilter, dateFromFilter, page>>
        /\ loadData(page, typeFilter, categoryFilter, dateFromFilter, v)

\* lines 178-184; the effect runs only if a dependency changed
resetFilters ==
    /\ ~diaryLoading
    /\ <<typeFilter, categoryFilter, dateFromFilter, dateToFilter, page>>
           # <<ALL, <<>>, <<>>, <<>>, 1>>
    /\ typeFilter' = ALL
    /\ categoryFilter' = <<>>
    /\ dateFromFilter' = <<>>
    /\ dateToFilter' = <<>>
    /\ page' = 1
    /\ loadData(1, ALL, <<>>, <<>>, <<>>)

\* the Previous button (lines 560-566 and 591-597)
PreviousPage ==
    /\ ~diaryLoading
    /\ totalTransactions > PageLimit
    /\ page # 1
    /\ page' = page - 1
    /\ UNCHANGED <<typeFilter, categoryFilter, dateFromFilter, dateToFilter>>
    /\ loadData(page - 1, typeFilter, categoryFilter, dateFromFilter, dateToFilter)

\* the Next button (lines 567-573 and 601-607)
NextPage ==
    /\ ~diaryLoading
    /\ totalTransactions > PageLimit
    /\ ~(page * PageLimit >= totalTransactions)
    /\ page' = page + 1
    /\ UNCHANGED <<typeFilter, categoryFilter, dateFromFilter, dateToFilter>>
    /\ loadData(page + 1, typeFilter, categoryFilter, dateFromFilter, dateToFilter)

ListCategoryLists ==
    {cats \in CategoryLists :
        \A i \in 1..Len(cats) :
            cats[i].id = i /\ cats[i].name # <<>> /\ cats[i].color # <<>>}
ListPages == {<<>>, <<[category_id |-> <<1>>]>>}

DiaryListLoadSucceeds ==
    /\ diaryLoading
    /\ \E cats \in ListCategoryLists, txs \in ListPages, total \in DiaryTotals :
        loadDataResolves(cats, txs, total)

NextDiaryList ==
    \/ DiaryListLoadSucceeds
    \/ DiaryLoadFails
    \/ SetTypeFilter
    \/ SetCategoryFilter
    \/ SetDateFromFilter
    \/ SetDateToFilter
    \/ resetFilters
    \/ PreviousPage
    \/ NextPage

SpecDiaryList == InitDiary /\ [][NextDiaryList]_vars

(***************************************************************************)
(* The Spending Diary's monthly overview (part_002 lines 36-49 and          *)
(* 104-153).  A click on a month button re-renders the page and the effect  *)
(* of lines 47-49 calls loadMonthlyStats, which reads the month and year of *)
(* that render; the buttons stay enabled while a call is in flight.  A call *)
(* is [id, year, month, phase]: it awaits statsApi.monthly, then            *)
(* statsApi.categories.                                                     *)
(***************************************************************************)
NewStatsRequest(id, yr, mon) ==
    [id |-> id, year |-> yr, month |-> mon, phase |-> "monthly"]

\* a render with a new month or year, then loadMonthlyStats up to its
\* first await
SelectMonth(yr, mon) ==
    /\ currentYear' = yr
    /\ currentMonth' = mon
    /\ nStatsRequests' = nStatsRequests + 1
    /\ statsLoading' = TRUE
    /\ statsRequests' = statsRequests \cup {NewStatsRequest(nStatsRequests + 1, yr, mon)}
    /\ UNCHANGED <<clock, monthlyStats, categoryStats, statsErrorLogged>>
    /\ UNCHANGED nonStatsVars

goToPreviousMonth ==
    /\ ~diaryLoading
    /\ nStatsRequests < MaxStatsRequests
    /\ IF currentMonth = 1
       THEN SelectMonth(currentYear - 1, MonthsPerYear)
       ELSE SelectMonth(currentYear, currentMonth - 1)

goToNextMonth ==
    /\ ~diaryLoading
    /\ nStatsRequests < MaxStatsRequests
    /\ IF currentMonth = MonthsPerYear
       THEN SelectMonth(currentYear + 1, 1)
       ELSE SelectMonth(currentYear, currentMonth + 1)

\* the button is rendered only when another month is selected (line 237)
goToCurrentMonth ==
    /\ ~diaryLoading
    /\ nStatsRequests < MaxStatsRequests
    /\ currentMonth # clock.month \/ currentYear # clock.year
    /\ SelectMonth(clock.year, clock.month)

\* statsApi.monthly resolves: lines 111-120
monthlyResolves ==
    \E r \in statsRequests :
        /\ r.phase = "monthly"
        /\ monthlyStats' = <<StatsOf(r.year, r.month)>>
        /\ statsRequests' = (statsRequests \ {r}) \cup {[r EXCEPT !.phase = "categories"]}
        /\ UNCHANGED <<clock, currentMonth, currentYear, categoryStats, statsLoading,
                       nStatsRequests, statsErrorLogged>>
        /\ UNCHANGED nonStatsVars

\* statsApi.categories resolves: lines 121-122 and the finally block
categoriesResolves ==
    \E r \in statsRequests :
        /\ r.phase = "categories"
        /\ categoryStats' = <<StatsOf(r.year, r.month)>>
        /\ statsLoading' = FALSE
        /\ statsRequests' = statsRequests \ {r}
        /\ UNCHANGED <<clock, currentMonth, currentYear, monthlyStats, nStatsRequests,
                       statsErrorLogged>>
        /\ UNCHANGED nonStatsVars

\* either request rejects: the catch and the finally block
loadMonthlyStatsFails ==
    \E r \in statsRequests :
        /\ statsErrorLogged' = TRUE
        /\ statsLoading' = FALSE
        /\ statsRequests' = statsRequests \ {r}
        /\ UNCHANGED <<clock, currentMonth, currentYear, monthlyStats, categoryStats,
                       nStatsRequests>>
        /\ UNCHANGED nonStatsVars

\* the Spending Diary with its list loaded and the loadMonthlyStats call of
\* the mount still in flight
InitStats ==
    /\ PageIdle
    /\ DiaryIdle
    /\ FormIdle
    /\ AuthIdle
    /\ InviteIdle
    /\ ListIdle
    /\ clock \in {[year |-> ClockYear, month |-> mon] : mon \in ClockMonths}
    /\ currentMonth = clock.month
    /\ currentYear = clock.year
    /\ monthlyStats = <<>>
    /\ categoryStats = <<>>
    /\ statsLoading = TRUE
    /\ statsRequests = {NewStatsRequest(0, clock.year, clock.month)}
    /\ nStatsRequests = 0
    /\ statsErrorLogged = FALSE

NextStats ==
    \/ goToPreviousMonth
    \/ goToNextMonth
    \/ goToCurrentMonth
    \/ monthlyResolves
    \/ categoriesResolves
    \/ loadMonthlyStatsFails

SpecStats == InitStats /\ [][NextStats]_vars

(***************************************************************************)
(* The forms: TransactionModal (Spending Diary), RealEstateTransactionModal *)
(* and TenantModal (property page), CategoryModal (categories page).  The   *)
(* page has one of them mounted (modal).  formData has the fields of all    *)
(* four forms; a form leaves the fields it does not have at their default.  *)
(* Text inputs are drawn from a few strings chosen for what trim, the       *)
(* amount pattern and parseFloat do with them.                              *)
(***************************************************************************)
NameInputs == {"", " ", "Rent"}
AmountInputs == {"", ".", "0", "40", "-5"}
DepositInputs == {"", "0", "500"}

\* String.prototype.trim on the modelled strings
Trim(s) == IF s = " " THEN "" ELSE s

\* /^\d*\.?\d*$/.test(value)
MatchesAmountPattern(value) == value \in {"", ".", "0", "40", "500"}

\* parseFloat(value): <<n>>, or <<>> for NaN
parseFloat(value) ==
    CASE value = "0" -> <<0>>
      [] value = "40" -> <<40>>
      [] value = "500" -> <<500>>
      [] value = "-5" -> <<-5>>
      [] OTHER -> <<>>

\* x <= 0 on a JavaScript number: false when x is NaN
LessOrEqualZero(x) == x # <<>> /\ x[1] <= 0

\* amount?.toString() || '' of a record's optional amount
AmountToString(amount) ==
    IF amount = <<>> THEN ""
    ELSE CHOOSE s \in AmountInputs \cup DepositInputs : parseFloat(s) = amount

\* the properties prop of the property page's forms: [property]
FormProperties == <<[id |-> 1]>>

\* properties.length > 0 ? properties[0].id || '' : ''
FirstPropertyId == IF Len(FormProperties) > 0 THEN <<FormProperties[1].id>> ELSE <<>>

\* the "create mode" branch of each form's reset effect
CreateFormData(m) ==
    IF m \in {REALESTATE, TENANT}
    THEN [DefaultFormData EXCEPT !.property_id = FirstPropertyId]
    ELSE DefaultFormData

\* the "edit mode" branch of each form's reset effect
EditFormData(m, rec) ==
    CASE m = TRANSACTION ->
            [DefaultFormData EXCEPT !.name = rec.name,
                                    !.amount = AmountToString(rec.amount),
                                    !.category_id = rec.category_id,
                                    !.type = rec.type]
      [] m = REALESTATE ->
            [DefaultFormData EXCEPT !.name = rec.name,
                                    !.property_id = rec.property_id,
                                    !.type = rec.type,
                                    !.amount = AmountToString(rec.amount)]
      [] m = CATEGORY ->
            [DefaultFormData EXCEPT !.name = rec.name, !.type = rec.type]
      [] OTHER ->
            [DefaultFormData EXCEPT !.name = rec.name,
                                    !.deposit_amount = rec.deposit_amount,
                                    !.property_id = rec.property_id]

\* the reset effect of a form: TenantModal's has no isOpen test
ResetForm(m, open, ed, fd) ==
    IF open \/ m = TENANT
    THEN IF ed # <<>> THEN EditFormData(m, ed[1]) ELSE CreateFormData(m)
    ELSE fd

\* categories.filter(cat => cat.type === formData.type)
filteredCategories(cats, type) == SelectSeq(cats, LAMBDA cat : cat.type = type)

\* TransactionModal's default-category effect, run with the formData of the
\* render it belongs to (closure) and applied to the current state (prev)
DefaultCategoryAny(closure, prev, cats, ed) ==
    IF ed = <<>> /\ Len(cats) > 0 /\ closure.category_id = <<>>
    THEN [prev EXCEPT !.category_id = <<cats[1].id>>]
    ELSE prev
DefaultCategory(closure, prev, cats, ed) ==
    LET availableCategories == filteredCategories(cats, closure.type)
    IN  IF ed = <<>> /\ Len(availableCategories) > 0 /\ closure.category_id = <<>>
        THEN [prev EXCEPT !.category_id = <<availableCategories[1].id>>]
        ELSE prev

\* formData once a freshly mounted form's effects have run
MountFormData(m, cats, open, ed) ==
    LET reset == ResetForm(m, open, ed, DefaultFormData)
    IN  IF m = TRANSACTION THEN DefaultCategory(DefaultFormData, reset, cats, ed)
        ELSE reset

\* the value the category <select> shows: the placeholder option when no
\* option has the state's category_id
SelectValue(fd, cats) ==
    IF fd.category_id # <<>>
       /\ \E i \in 1..Len(cats) : cats[i].type = fd.type /\ <<cats[i].id>> = fd.category_id
    THEN fd.category_id
    ELSE <<>>

\* the records the pages offer for editing
EditRecords(m) ==
    CASE m = TRANSACTION ->
            {[id |-> 1, name |-> "Rent", amount |-> <<40>>, type |-> t, category_id |-> c]
                : t \in {INCOME, EXPENSE}, c \in {<<>>, <<1>>}}
      [] m = REALESTATE ->
            {[id |-> 1, name |-> "Rent", amount |-> <<40>>, type |-> t, property_id |-> <<1>>]
                : t \in {INCOME, EXPENSE}}
      [] m = CATEGORY ->
            {[id |-> 1, name |-> "Rent", type |-> t] : t \in {INCOME, EXPENSE}}
      [] OTHER ->
            {[id |-> 1, name |-> "Rent", deposit_amount |-> 500, property_id |-> <<1>>]}

\* the server's categories as the forms use them: a kind each, and distinct
\* ids (numbered in list order, the numbering being the server's choice)
FormCategoryLists ==
    UNION {{f \in [1..k -> [id : CategoryIds, name : {<<"Salary">>}, color : {<<>>},
                            type : {INCOME, EXPENSE}]] :
               \A i \in 1..k : f[i].id = i} : k \in 0..MaxCategories}

\* the page opens the form with no record
OpenCreate ==
    /\ ~isOpen
    /\ isOpen' = TRUE
    /\ editing' = <<>>
    /\ LET reset == ResetForm(modal, TRUE, <<>>, formData)
       IN  formData' = IF modal = TRANSACTION /\ reset.type # formData.type
                       THEN DefaultCategory(reset, reset, categories, <<>>)
                       ELSE reset
    /\ formError' = ""
    /\ UNCHANGED <<modal, formLoading, request, onSaveCalled>>
    /\ UNCHANGED nonFormVars

\* the page opens the form with a record to edit
OpenEdit ==
    /\ ~isOpen
    /\ \E rec \in EditRecords(modal) :
        /\ isOpen' = TRUE
        /\ editing' = <<rec>>
        /\ formData' = ResetForm(modal, TRUE, <<rec>>, formData)
        /\ formError' = ""
        /\ UNCHANGED <<modal, formLoading, request, onSaveCalled>>
        /\ UNCHANGED nonFormVars

\* formData after the page's onClose: isOpen false, record null
ClosedFormData(m, fd, cats, ed) ==
    CASE m = TRANSACTION -> IF ed # <<>> THEN DefaultCategory(fd, fd, cats, <<>>) ELSE fd
      [] m = TENANT -> CreateFormData(TENANT)
      [] OTHER -> fd

\* onClose: the X button, the backdrop, Cancel
CloseModal ==
    /\ isOpen
    /\ isOpen' = FALSE
    /\ editing' = <<>>
    /\ formData' = ClosedFormData(modal, formData, categories, editing)
    /\ formError' = IF modal = TENANT THEN "" ELSE formError
    /\ UNCHANGED <<modal, formLoading, request, onSaveCalled>>
    /\ UNCHANGED nonFormVars

ChangeName ==
    /\ isOpen
    /\ \E value \in NameInputs :
        /\ formData' = [formData EXCEPT !.name = value]
        /\ UNCHANGED <<modal, isOpen, editing, formLoading, formError, request, onSaveCalled>>
        /\ UNCHANGED nonFormVars

handleAmountChange ==
    /\ isOpen
    /\ modal \in {TRANSACTION, REALESTATE}
    /\ \E value \in AmountInputs :
        /\ formData' = IF MatchesAmountPattern(value)
                       THEN [formData EXCEPT !.amount = value]
                       ELSE formData
        /\ UNCHANGED <<modal, isOpen, editing, formLoading, formError, request, onSaveCalled>>
        /\ UNCHANGED nonFormVars

\* TenantModal's deposit input: parseFloat(e.target.value) || 0
ChangeDeposit ==
    /\ isOpen
    /\ modal = TENANT
    /\ \E value \in DepositInputs :
        /\ formData' = [formData EXCEPT !.deposit_amount =
                           IF parseFloat(value) = <<>> THEN 0 ELSE parseFloat(value)[1]]
        /\ UNCHANGED <<modal, isOpen, editing, formLoading, formError, request, onSaveCalled>>
        /\ UNCHANGED nonFormVars

\* TransactionModal's type radios: disabled when editing; the change clears
\* category_id and the default-category effect follows
TransactionModal_ChangeType ==
    /\ isOpen
    /\ modal = TRANSACTION
    /\ editing = <<>>
    /\ \E type \in {INCOME, EXPENSE} \ {formData.type} :
        /\ LET changed == [formData EXCEPT !.type = type, !.category_id = <<>>]
           IN  formData' = DefaultCategory(changed, changed, categories, <<>>)
        /\ UNCHANGED <<modal, isOpen, editing, formLoading, formError, request, onSaveCalled>>
        /\ UNCHANGED nonFormVars

\* RealEstateTransactionModal's type radios: enabled in both modes
RealEstateTransactionModal_ChangeType ==
    /\ isOpen
    /\ modal = REALESTATE
    /\ \E type \in {INCOME, EXPENSE} \ {formData.type} :
        /\ formData' = [formData EXCEPT !.type = type]
        /\ UNCHANGED <<modal, isOpen, editing, formLoading, formError, request, onSaveCalled>>
        /\ UNCHANGED nonFormVars

\* CategoryModal's type radios: disabled when editing
CategoryModal_ChangeType ==
    /\ isOpen
    /\ modal = CATEGORY
    /\ editing = <<>>
    /\ \E type \in {INCOME, EXPENSE} \ {formData.type} :
        /\ formData' = [formData EXCEPT !.type = type]
        /\ UNCHANGED <<modal, isOpen, editing, formLoading, formError, request, onSaveCalled>>
        /\ UNCHANGED nonFormVars

\* TransactionModal's category <select>: the placeholder or a filtered category
ChangeCategory ==
    /\ isOpen
    /\ modal = TRANSACTION
    /\ LET options == filteredCategories(categories, formData.type)
       IN  \E value \in {<<>>} \cup {<<options[i].id>> : i \in 1..Len(options)} :
            /\ formData' = [formData EXCEPT !.category_id = value]
            /\ UNCHANGED <<modal, isOpen, editing, formLoading, formError, request,
                           onSaveCalled>>
            /\ UNCHANGED nonFormVars

\* a request as it leaves a form; type is <<>> when the request has no type
NewRequest(m, op, id, name, amount, type, fd) ==
    [modal |-> m, op |-> op, id |-> id, name |-> name, amount |-> amount, type |-> type,
     category_id |-> fd.category_id, property_id |-> fd.property_id,
     deposit_amount |-> fd.deposit_amount]

\* handleSubmit up to its first await: a thrown validation error is caught
\* and the finally block runs before the handler returns
Rejected(msg) ==
    /\ formError' = msg
    /\ formLoading' = FALSE
    /\ UNCHANGED <<request, onSaveCalled>>

Sent(r) ==
    /\ request' = <<r>>
    /\ formError' = ""
    /\ formLoading' = TRUE
    /\ onSaveCalled' = FALSE

\* the submit button is disabled while loading or with no category of the
\* kind; the browser holds the submit back while a required control is empty
TransactionModal_handleSubmit ==
    /\ isOpen
    /\ modal = TRANSACTION
    /\ ~formLoading
    /\ request = <<>>
    /\ Len(filteredCategories(categories, formData.type)) > 0
    /\ formData.name # ""
    /\ formData.amount # ""
    /\ SelectValue(formData, categories) # <<>>
    /\ IF Trim(formData.name) = "" THEN Rejected("Name is required")
       ELSE IF formData.amount = "" \/ LessOrEqualZero(parseFloat(formData.amount))
            THEN Rejected("Amount must be greater than 0")
       ELSE IF formData.category_id = <<>> THEN Rejected("Category is required")
       ELSE IF editing # <<>>
            THEN Sent(NewRequest(TRANSACTION, "update", editing[1].id, Trim(formData.name),
                                 parseFloat(formData.amount), <<>>, formData))
            ELSE Sent(NewRequest(TRANSACTION, "create", 0, Trim(formData.name),
                                 parseFloat(formData.amount), <<formData.type>>, formData))
    /\ UNCHANGED <<modal, isOpen, editing, formData>>
    /\ UNCHANGED nonFormVars

RealEstateTransactionModal_handleSubmit ==
    /\ isOpen
    /\ modal = REALESTATE
    /\ ~formLoading
    /\ request = <<>>
    /\ Len(FormProperties) > 0
    /\ formData.name # ""
    /\ formData.property_id # <<>>
    /\ formData.amount # ""
    /\ IF Trim(formData.name) = "" THEN Rejected("Transaction name is required")
       ELSE IF formData.property_id = <<>> THEN Rejected("Property is required")
       ELSE IF formData.amount = "" \/ LessOrEqualZero(parseFloat(formData.amount))
            THEN Rejected("Amount must be greater than 0")
       ELSE Sent(NewRequest(REALESTATE, IF editing # <<>> THEN "update" ELSE "create",
                            IF editing # <<>> THEN editing[1].id ELSE 0,
                            Trim(formData.name), parseFloat(formData.amount),
                            <<formData.type>>, formData))
    /\ UNCHANGED <<modal, isOpen, editing, formData>>
    /\ UNCHANGED nonFormVars

CategoryModal_handleSubmit ==
    /\ isOpen
    /\ modal = CATEGORY
    /\ ~formLoading
    /\ request = <<>>
    /\ formData.name # ""
    /\ IF Trim(formData.name) = "" THEN Rejected("Category name is required")
       ELSE IF editing # <<>>
            THEN Sent(NewRequest(CATEGORY, "update", editing[1].id, Trim(formData.name),
                                 <<>>, <<>>, formData))
            ELSE Sent(NewRequest(CATEGORY, "create", 0, Trim(formData.name),
                                 <<>>, <<formData.type>>, formData))
    /\ UNCHANGED <<modal, isOpen, editing, formData>>
    /\ UNCHANGED nonFormVars

\* TenantModal.handleSubmit sends {...formData} with no check of its own
TenantModal_handleSubmit ==
    /\ isOpen
    /\ modal = TENANT
    /\ ~formLoading
    /\ request = <<>>
    /\ formData.name # ""
    /\ formData.property_id # <<>>
    /\ Sent(NewRequest(TENANT, IF editing # <<>> THEN "update" ELSE "create",
                       IF editing # <<>> THEN editing[1].id ELSE 0,
                       formData.name, <<>>, <<>>, formData))
    /\ UNCHANGED <<modal, isOpen, editing, formData>>
    /\ UNCHANGED nonFormVars

\* the request resolves: onSave(), onClose(), finally.  The Spending Diary's
\* onSave is loadData: the page shows its spinner, which unmounts the form,
\* and mounts it again with the category list of the answer
SaveSucceeds ==
    /\ request # <<>>
    /\ request' = <<>>
    /\ onSaveCalled' = TRUE
    /\ isOpen' = FALSE
    /\ editing' = <<>>
    /\ formLoading' = FALSE
    /\ IF modal = TRANSACTION
       THEN \E cats \in FormCategoryLists :
                /\ categories' = cats
                /\ formData' = MountFormData(TRANSACTION, cats, FALSE, <<>>)
                /\ formError' = ""
       ELSE /\ formData' = ClosedFormData(modal, formData, categories, editing)
            /\ formError' = IF modal = TENANT THEN "" ELSE formError
            /\ UNCHANGED categories
    /\ UNCHANGED <<modal, diaryTransactions, diaryLoading, diaryError, diaryRows>>
    /\ UNCHANGED <<pageVars, authVars, inviteVars, listVars, statsVars>>

\* the request rejects: the catch block and finally
SaveFails ==
    /\ request # <<>>
    /\ request' = <<>>
    /\ formError' = CASE modal = TRANSACTION -> "Failed to save transaction"
                      [] modal = REALESTATE -> "Failed to save transaction"
                      [] modal = CATEGORY -> "Failed to save category"
                      [] OTHER -> "Failed to save tenant"
    /\ formLoading' = FALSE
    /\ UNCHANGED <<modal, isOpen, editing, formData, onSaveCalled>>
    /\ UNCHANGED nonFormVars

\* the Spending Diary's loadData from a filter, a page change or a delete:
\* the spinner unmounts TransactionModal, the answer mounts a fresh one with
\* the page's isOpen and record.  A request of the unmounted form is no
\* longer followed: all it can still do is loadData and onClose.
ReloadCategories ==
    /\ modal = TRANSACTION
    /\ \E cats \in FormCategoryLists :
        /\ categories' = cats
        /\ formData' = MountFormData(TRANSACTION, cats, isOpen, editing)
        /\ formLoading' = FALSE
        /\ formError' = ""
        /\ request' = <<>>
        /\ UNCHANGED <<modal, isOpen, editing, onSaveCalled>>
        /\ UNCHANGED <<diaryTransactions, diaryLoading, diaryError, diaryRows>>
        /\ UNCHANGED <<pageVars, authVars, inviteVars, listVars, statsVars>>

\* a page with its form mounted and closed; the Spending Diary has loaded
InitForm ==
    /\ backend = <<>>
    /\ transactions = <<>>
    /\ property = FALSE
    /\ loading = TRUE
    /\ error = <<>>
    /\ filterFromDate = <<>>
    /\ filterToDate = <<>>
    /\ loads = {}
    /\ nLoads = 0
    /\ mutations = {}
    /\ nMutations = 0
    /\ view = Render(<<>>, FALSE, TRUE, <<>>, <<>>, <<>>)
    /\ modal \in Modals
    /\ categories \in IF modal = TRANSACTION THEN FormCategoryLists ELSE {<<>>}
    /\ diaryTransactions = <<>>
    /\ diaryLoading = FALSE
    /\ diaryError = <<>>
    /\ diaryRows = <<>>
    /\ isOpen = FALSE
    /\ editing = <<>>
    /\ formData = MountFormData(modal, categories, FALSE, <<>>)
    /\ formLoading = FALSE
    /\ formError = ""
    /\ request = <<>>
    /\ onSaveCalled = FALSE
    /\ AuthIdle
    /\ InviteIdle
    /\ ListIdle
    /\ StatsIdle

NextForm ==
    \/ OpenCreate
    \/ OpenEdit
    \/ CloseModal
    \/ ChangeName
    \/ handleAmountChange
    \/ ChangeDeposit
    \/ TransactionModal_ChangeType
    \/ RealEstateTransactionModal_ChangeType
    \/ CategoryModal_ChangeType
    \/ ChangeCategory
    \/ TransactionModal_handleSubmit
    \/ RealEstateTransactionModal_handleSubmit
    \/ CategoryModal_handleSubmit
    \/ TenantModal_handleSubmit
    \/ SaveSucceeds
    \/ SaveFails
    \/ ReloadCategories

SpecForm == InitForm /\ [][NextForm]_vars

(***************************************************************************)
(* AuthProvider (hooks/useAuth.tsx) and the credential every request is     *)
(* sent with (services/api.ts, createApiConfig).  A request in flight is    *)
(* [id, kind, credential]; the server's answer is chosen when it settles.   *)
(* login, register and page requests are made from what AppRoutes renders   *)
(* once loading is false; the logout button is Layout's, which the          *)
(* protected routes render for a logged-in user.                            *)
(***************************************************************************)
Tokens == {"t1", "t2"}
Users == {"u1"}
StoredTokens == {<<>>, <<"t1">>}

\* the apiKey callback of createApiConfig, given localStorage's auth_token
apiKeyNoEmptyCase(stored) == "Bearer " \o (IF stored # <<>> THEN stored[1] ELSE "null")
apiKey(stored) == IF stored # <<>> THEN "Bearer " \o stored[1] ELSE ""

\* a request leaves through a freshly made Configuration
NewAuthRequest(id, kind, stored) == [id |-> id, kind |-> kind, credential |-> apiKey(stored)]

\* what the login endpoint may answer
LoginResponses == [token : {<<>>} \cup {<<t>> : t \in Tokens},
                   user : {<<>>} \cup {<<u>> : u \in Users}]

\* response.token && response.user
ValidLoginResponseTokenOnly(response) == response.token # <<>>
ValidLoginResponse(response) == response.token # <<>> /\ response.user # <<>>

\* the mount effect: read the stored token, fetch the profile with it
AuthProviderMount ==
    /\ ~authMounted
    /\ authMounted' = TRUE
    /\ LET savedToken == auth_token
       IN  IF savedToken # <<>>
           THEN /\ token' = savedToken
                /\ authRequests' = authRequests \cup {NewAuthRequest(0, "profile", auth_token)}
                /\ UNCHANGED authLoading
           ELSE /\ authLoading' = FALSE
                /\ UNCHANGED <<token, authRequests>>
    /\ UNCHANGED <<auth_token, user, nAuthRequests, loginResult, loggedOut>>
    /\ UNCHANGED nonAuthVars

\* fetchUser: getProfile resolves
fetchUserSucceeds ==
    \E r \in authRequests :
        /\ r.kind = "profile"
        /\ \E userData \in Users : user' = <<userData>>
        /\ authLoading' = FALSE
        /\ authRequests' = authRequests \ {r}
        /\ UNCHANGED <<auth_token, token, authMounted, nAuthRequests, loginResult, loggedOut>>
        /\ UNCHANGED nonAuthVars

fetchUserFailsKeepsToken ==
    \E r \in authRequests :
        /\ r.kind = "profile"
        /\ token' = <<>>
        /\ authLoading' = FALSE
        /\ authRequests' = authRequests \ {r}
        /\ UNCHANGED <<auth_token, user, authMounted, nAuthRequests, loginResult, loggedOut>>
        /\ UNCHANGED nonAuthVars
\* fetchUser: getProfile rejects
fetchUserFails ==
    \E r \in authRequests :
        /\ r.kind = "profile"
        /\ auth_token' = <<>>
        /\ token' = <<>>
        /\ authLoading' = FALSE
        /\ authRequests' = authRequests \ {r}
        /\ UNCHANGED <<user, authMounted, nAuthRequests, loginResult, loggedOut>>
        /\ UNCHANGED nonAuthVars

\* login(credentials) is called: the request leaves
login ==
    /\ authMounted /\ ~authLoading
    /\ user = <<>>
    /\ nAuthRequests < MaxAuthRequests
    /\ nAuthRequests' = nAuthRequests + 1
    /\ authRequests' = authRequests \cup {NewAuthRequest(nAuthRequests', "login", auth_token)}
    /\ loggedOut' = FALSE
    /\ UNCHANGED <<auth_token, user, token, authLoading, authMounted, loginResult>>
    /\ UNCHANGED nonAuthVars

\* authApi.login resolves: the rest of login
loginResponds ==
    \E r \in authRequests, response \in LoginResponses :
        /\ r.kind = "login"
        /\ authRequests' = authRequests \ {r}
        /\ IF ValidLoginResponse(response)
           THEN /\ token' = response.token
                /\ user' = response.user
                /\ auth_token' = response.token
           ELSE UNCHANGED <<token, user, auth_token>>
        /\ loginResult' = <<[id |-> r.id, resolved |-> ValidLoginResponse(response),
                             response |-> <<response>>]>>
        /\ UNCHANGED <<authLoading, authMounted, nAuthRequests, loggedOut>>
        /\ UNCHANGED nonAuthVars

\* authApi.login rejects: login rejects with it
loginRejects ==
    \E r \in authRequests :
        /\ r.kind = "login"
        /\ authRequests' = authRequests \ {r}
        /\ loginResult' = <<[id |-> r.id, resolved |-> FALSE, response |-> <<>>]>>
        /\ UNCHANGED <<auth_token, user, token, authLoading, authMounted, nAuthRequests,
                       loggedOut>>
        /\ UNCHANGED nonAuthVars

\* register(data) is called: the request leaves
register ==
    /\ authMounted /\ ~authLoading
    /\ user = <<>>
    /\ nAuthRequests < MaxAuthRequests
    /\ nAuthRequests' = nAuthRequests + 1
    /\ authRequests' = authRequests \cup {NewAuthRequest(nAuthRequests', "register", auth_token)}
    /\ loggedOut' = FALSE
    /\ UNCHANGED <<auth_token, user, token, authLoading, authMounted, loginResult>>
    /\ UNCHANGED nonAuthVars

\* authApi.register resolves: with a token, store it and call fetchUser
registerResponds ==
    \E r \in authRequests, responseToken \in {<<>>} \cup {<<t>> : t \in Tokens} :
        /\ r.kind = "register"
        /\ IF responseToken # <<>>
           THEN /\ token' = responseToken
                /\ auth_token' = responseToken
                /\ authRequests' = (authRequests \ {r})
                                       \cup {NewAuthRequest(r.id, "profile", responseToken)}
           ELSE /\ authRequests' = authRequests \ {r}
                /\ UNCHANGED <<token, auth_token>>
        /\ UNCHANGED <<user, authLoading, authMounted, nAuthRequests, loginResult, loggedOut>>
        /\ UNCHANGED nonAuthVars

registerRejects ==
    \E r \in authRequests :
        /\ r.kind = "register"
        /\ authRequests' = authRequests \ {r}
        /\ UNCHANGED <<auth_token, user, token, authLoading, authMounted, nAuthRequests,
                       loginResult, loggedOut>>
        /\ UNCHANGED nonAuthVars

\* Layout's logout button
logout ==
    /\ authMounted /\ ~authLoading
    /\ user # <<>>
    /\ user' = <<>>
    /\ token' = <<>>
    /\ auth_token' = <<>>
    /\ loggedOut' = TRUE
    /\ UNCHANGED <<authLoading, authMounted, authRequests, nAuthRequests, loginResult>>
    /\ UNCHANGED nonAuthVars

\* a page calls one of the api services
PageRequest ==
    /\ authMounted /\ ~authLoading
    /\ nAuthRequests < MaxAuthRequests
    /\ nAuthRequests' = nAuthRequests + 1
    /\ authRequests' = authRequests \cup {NewAuthRequest(nAuthRequests', "data", auth_token)}
    /\ UNCHANGED <<auth_token, user, token, authLoading, authMounted, loginResult, loggedOut>>
    /\ UNCHANGED nonAuthVars

PageRequestSettles ==
    \E r \in authRequests :
        /\ r.kind = "data"
        /\ authRequests' = authRequests \ {r}
        /\ UNCHANGED <<auth_token, user, token, authLoading, authMounted, nAuthRequests,
                       loginResult, loggedOut>>
        /\ UNCHANGED nonAuthVars

\* AuthProvider as constructed: its mount effect has not yet run
InitAuth ==
    /\ PageIdle
    /\ DiaryIdle
    /\ FormIdle
    /\ InviteIdle
    /\ ListIdle
    /\ StatsIdle
    /\ auth_token \in StoredTokens
    /\ user = <<>>
    /\ token = <<>>
    /\ authLoading = TRUE
    /\ authMounted = FALSE
    /\ authRequests = {}
    /\ nAuthRequests = 0
    /\ loginResult = <<>>
    /\ loggedOut = FALSE

NextAuth ==
    \/ AuthProviderMount
    \/ fetchUserSucceeds
    \/ fetchUserFails
    \/ login
    \/ loginResponds
    \/ loginRejects
    \/ register
    \/ registerResponds
    \/ registerRejects
    \/ logout
    \/ PageRequest
    \/ PageRequestSettles

SpecAuth == InitAuth /\ [][NextAuth]_vars

\* the mount effect runs after the first render, and a request to the
\* backend settles: it resolves or it rejects
SpecAuthFair ==
    /\ InitAuth
    /\ [][NextAuth]_vars
    /\ WF_vars(AuthProviderMount)
    /\ WF_vars(fetchUserSucceeds \/ fetchUserFails)

(***************************************************************************)
(* The invitation flow: AcceptInvitation (part_001), the routes of          *)
(* AppRoutes (part_003) and Landing's effect on location (Landing.tsx).     *)
(* Nobody is logged in.  A navigation, the routes' redirects and the mount  *)
(* effect of the page it ends on are one step.                              *)
(***************************************************************************)
MinPasswordLength == 6
PasswordInputs == {"", "abc", "abcdef", "abcdefg"}
UrlTokens == {<<>>, <<"inv">>}
ActivatedMessage == "Account activated! Please log in with your credentials."

\* AppRoutes: where a navigation to path with state ends.  '/' shows Landing
\* or, with a user, redirects to the dashboard; every path that is no route
\* is redirected to '/' by <Navigate to="/" replace />, which has no state
ResolveRoute(path, state, u) ==
    CASE path = ACCEPT_INVITATION -> [pathname |-> path, state |-> state]
      [] path = DASHBOARD -> [pathname |-> path, state |-> state]
      [] path = LANDING -> IF u # <<>> THEN [pathname |-> DASHBOARD, state |-> <<>>]
                           ELSE [pathname |-> LANDING, state |-> state]
      [] OTHER -> IF u # <<>> THEN [pathname |-> DASHBOARD, state |-> <<>>]
                  ELSE [pathname |-> LANDING, state |-> <<>>]

\* the two checks of handleSubmit: the error they set, '' when both pass
ValidationErrorNoLength(fd) ==
    IF fd.password # fd.confirmPassword THEN "Passwords do not match" ELSE ""
ValidationError(fd) ==
    IF fd.password # fd.confirmPassword THEN "Passwords do not match"
    ELSE IF Len(fd.password) < MinPasswordLength
         THEN "Password must be at least 6 characters long"
         ELSE ""

\* navigate(path, {state}) from the invitation page: the page is unmounted
\* when the location leaves it, and Landing's effect reads location.state
\* (the effect also starts a 5000 ms timer that clears the message again)
Navigate(path, state) ==
    LET loc == ResolveRoute(path, state, user)
    IN  /\ route' = loc.pathname
        /\ locationState' = loc.state
        /\ IF loc.pathname = LANDING /\ loc.state # <<>>
           THEN message' = loc.state[1] /\ showLogin' = TRUE
           ELSE UNCHANGED <<message, showLogin>>
        /\ IF loc.pathname # ACCEPT_INVITATION
           THEN /\ inviteMounted' = FALSE
                /\ inviteForm' = InviteFormData(<<>>)
                /\ inviteLoading' = FALSE
                /\ inviteError' = ""
                /\ success' = ""
           ELSE UNCHANGED <<inviteMounted, inviteForm, inviteLoading, inviteError, success>>

\* the mount effect: with no token in the URL, navigate('/login')
AcceptInvitationMount ==
    /\ route = ACCEPT_INVITATION
    /\ ~inviteMounted
    /\ IF inviteForm.token = <<>>
       THEN Navigate(LOGIN, <<>>)
       ELSE /\ inviteMounted' = TRUE
            /\ UNCHANGED <<route, locationState, inviteForm, inviteLoading, inviteError,
                           success, showLogin, message>>
    /\ UNCHANGED <<inviteRequest, redirectTimers>>
    /\ UNCHANGED nonInviteVars

ChangePassword ==
    /\ route = ACCEPT_INVITATION /\ inviteMounted
    /\ \E value \in PasswordInputs :
        /\ inviteForm' = [inviteForm EXCEPT !.password = value]
        /\ UNCHANGED <<route, locationState, inviteMounted, inviteLoading, inviteError,
                       success, inviteRequest, redirectTimers, showLogin, message>>
        /\ UNCHANGED nonInviteVars

ChangeConfirmPassword ==
    /\ route = ACCEPT_INVITATION /\ inviteMounted
    /\ \E value \in PasswordInputs :
        /\ inviteForm' = [inviteForm EXCEPT !.confirmPassword = value]
        /\ UNCHANGED <<route, locationState, inviteMounted, inviteLoading, inviteError,
                       success, inviteRequest, redirectTimers, showLogin, message>>
        /\ UNCHANGED nonInviteVars

\* handleSubmit up to its await.  The button is disabled while loading and
\* without a token; both inputs are required
AcceptInvitation_handleSubmit ==
    /\ route = ACCEPT_INVITATION /\ inviteMounted
    /\ ~inviteLoading
    /\ inviteForm.token # <<>>
    /\ inviteForm.password # "" /\ inviteForm.confirmPassword # ""
    /\ inviteRequest = <<>>
    /\ redirectTimers < MaxRedirectTimers
    /\ success' = ""
    /\ IF ValidationError(inviteForm) # ""
       THEN /\ inviteError' = ValidationError(inviteForm)
            /\ UNCHANGED <<inviteLoading, inviteRequest>>
       ELSE /\ inviteError' = ""
            /\ inviteLoading' = TRUE
            /\ inviteRequest' = <<[password |-> inviteForm.password,
                                   token |-> inviteForm.token]>>
    /\ UNCHANGED <<route, locationState, inviteMounted, inviteForm, redirectTimers,
                   showLogin, message>>
    /\ UNCHANGED nonInviteVars

\* the request resolves: setSuccess, the 1500 ms timer, finally
AcceptInvitationSucceeds ==
    /\ inviteRequest # <<>>
    /\ inviteRequest' = <<>>
    /\ redirectTimers' = redirectTimers + 1
    /\ IF inviteMounted
       THEN /\ success' = "Password set successfully! Logging you in..."
            /\ inviteLoading' = FALSE
       ELSE UNCHANGED <<success, inviteLoading>>
    /\ UNCHANGED <<route, locationState, inviteMounted, inviteForm, inviteError, showLogin,
                   message>>
    /\ UNCHANGED nonInviteVars

\* the request rejects: the catch block and finally
AcceptInvitationFails ==
    /\ inviteRequest # <<>>
    /\ inviteRequest' = <<>>
    /\ IF inviteMounted
       THEN /\ inviteError' = "Failed to set password"
            /\ inviteLoading' = FALSE
       ELSE UNCHANGED <<inviteError, inviteLoading>>
    /\ UNCHANGED <<route, locationState, inviteMounted, inviteForm, success, redirectTimers,
                   showLogin, message>>
    /\ UNCHANGED nonInviteVars

\* the timer's callback: navigate('/login', {state: {message}})
RedirectTimerFires ==
    /\ redirectTimers > 0
    /\ redirectTimers' = redirectTimers - 1
    /\ Navigate(LOGIN, <<ActivatedMessage>>)
    /\ UNCHANGED inviteRequest
    /\ UNCHANGED nonInviteVars

\* Landing: the Sign In button
OpenLogin ==
    /\ route = LANDING
    /\ ~showLogin
    /\ showLogin' = TRUE
    /\ UNCHANGED <<route, locationState, inviteMounted, inviteForm, inviteLoading,
                   inviteError, success, inviteRequest, redirectTimers, message>>
    /\ UNCHANGED nonInviteVars

\* Landing: LoginForm's onClose
CloseLogin ==
    /\ route = LANDING
    /\ showLogin
    /\ showLogin' = FALSE
    /\ message' = ""
    /\ UNCHANGED <<route, locationState, inviteMounted, inviteForm, inviteLoading,
                   inviteError, success, inviteRequest, redirectTimers>>
    /\ UNCHANGED nonInviteVars

\* the browser has opened /accept-invitation, with or without ?token=
InitInvite ==
    /\ PageIdle
    /\ DiaryIdle
    /\ FormIdle
    /\ AuthIdle
    /\ ListIdle
    /\ StatsIdle
    /\ route = ACCEPT_INVITATION
    /\ locationState = <<>>
    /\ inviteMounted = FALSE
    /\ inviteForm \in {InviteFormData(urlToken) : urlToken \in UrlTokens}
    /\ inviteLoading = FALSE
    /\ inviteError = ""
    /\ success = ""
    /\ inviteRequest = <<>>
    /\ redirectTimers = 0
    /\ showLogin = FALSE
    /\ message = ""

NextInvite ==
    \/ AcceptInvitationMount
    \/ ChangePassword
    \/ ChangeConfirmPassword
    \/ AcceptInvitation_handleSubmit
    \/ AcceptInvitationSucceeds
    \/ AcceptInvitationFails
    \/ RedirectTimerFires
    \/ OpenLogin
    \/ CloseLogin

SpecInvite == InitInvite /\ [][NextInvite]_vars

(***************************************************************************)
(* Reference definitions the claims are stated with: the calendar date of   *)
(* a timestamp, the period [from, to] by calendar date, and sums written    *)
(* directly over the list.                                                  *)
(***************************************************************************)
Dated(t) == t.transaction_date # <<>>
CalendarDay(t) == t.transaction_date[1].day
NotBefore(t, fromStr) == fromStr = <<>> \/ CalendarDay(t) >= fromStr[1]
NotAfter(t, toStr) == toStr = <<>> \/ CalendarDay(t) <= toStr[1]
InPeriod(t, fromStr, toStr) == NotBefore(t, fromStr) /\ NotAfter(t, toStr)
Listed(t) == \E j \in 1..Len(view.list) : view.list[j] = t
Detail == view.screen = "detail"

RECURSIVE SumWhere(_, _)
SumWhere(txs, type) ==
    IF txs = <<>> THEN 0
    ELSE (IF Head(txs).type = type /\ Head(txs).amount # <<>>
          THEN Head(txs).amount[1] ELSE 0) + SumWhere(Tail(txs), type)

\* C1: the period filter's output is exactly the entries whose date lies in
\* [from, to] (an entry without a date stays, as section 4.1 says), in input
\* order; so with from > to no dated entry is shown.
C1_FilterIsExactlyThePeriod ==
    Detail =>
        view.list = SelectSeq(transactions,
            LAMBDA t : ~Dated(t) \/ InPeriod(t, filterFromDate, filterToDate))

\* C2: an entry dated on the from day or on the to day, and inside the other
\* bound, is shown whatever its time of day.
C2_BoundsInclusiveByDate ==
    Detail =>
        \A i \in 1..Len(transactions) :
            LET t == transactions[i]
            IN  /\ Dated(t)
                /\ InPeriod(t, filterFromDate, filterToDate)
                /\ \/ (filterFromDate # <<>> /\ CalendarDay(t) = filterFromDate[1])
                   \/ (filterToDate # <<>> /\ CalendarDay(t) = filterToDate[1])
                => Listed(t)

\* C3: a transaction without a transaction_date is shown for every choice of
\* the bounds, also when from > to.
C3_UndatedAlwaysRetained ==
    Detail =>
        \A i \in 1..Len(transactions) : ~Dated(transactions[i]) => Listed(transactions[i])

C3_Witness ==
    /\ Detail
    /\ filterFromDate # <<>> /\ filterToDate # <<>>
    /\ filterFromDate[1] > filterToDate[1]
    /\ Len(transactions) = 2
    /\ ~Dated(transactions[1]) /\ Dated(transactions[2])
    /\ view.list = <<transactions[1]>>

\* C4: total income is the sum of the amounts of the INCOME entries and total
\* expense that of the EXPENSE entries, a missing amount counting 0 and any
\* other kind counting in neither; the empty list gives 0, 0 and net 0.
C4_TotalsArePerKindSums ==
    Detail =>
        /\ view.totalIncome = SumWhere(transactions, INCOME)
        /\ view.totalExpense = SumWhere(transactions, EXPENSE)
        /\ view.filteredIncome = SumWhere(view.list, INCOME)
        /\ view.filteredExpense = SumWhere(view.list, EXPENSE)
        /\ transactions = <<>> =>
               view.totalIncome = 0 /\ view.totalExpense = 0 /\ view.balance = 0

C4_Witness ==
    /\ Detail
    /\ \E i, j \in 1..Len(transactions) :
          /\ transactions[i].type = NOTYPE /\ transactions[i].amount = <<40>>
          /\ transactions[j].type = INCOME /\ transactions[j].amount = <<100>>
    /\ view.totalIncome = 100
    /\ view.totalExpense = 0

\* C7: with a bound set, the period's income, expense and balance are the
\* sums over the filter's output, and an entry dated outside [from, to] is
\* not in that output: income 100 on day 1 and expense 40 on day 2 with the
\* range [day 2, day 3] give income 0, expense 40, net -40.
C7_FilterThenAggregate ==
    (Detail /\ view.showFilteredSums) =>
        /\ view.list = filteredTransactions(transactions, filterFromDate, filterToDate)
        /\ view.filteredIncome = SumWhere(view.list, INCOME)
        /\ view.filteredExpense = SumWhere(view.list, EXPENSE)
        /\ view.filteredBalance = SumWhere(view.list, INCOME) - SumWhere(view.list, EXPENSE)
        /\ \A i \in 1..Len(transactions) :
              (Dated(transactions[i])
                  /\ ~InPeriod(transactions[i], filterFromDate, filterToDate))
              => ~Listed(transactions[i])

C7_Witness ==
    /\ Detail
    /\ Len(transactions) = 2
    /\ transactions[1].type = INCOME /\ transactions[1].amount = <<100>>
    /\ transactions[1].transaction_date = <<FullDateTime(1)>>
    /\ transactions[2].type = EXPENSE /\ transactions[2].amount = <<40>>
    /\ transactions[2].transaction_date = <<FullDateTime(2)>>
    /\ filterFromDate = <<2>> /\ filterToDate = <<3>>
    /\ view.showFilteredSums
    /\ view.filteredIncome = 0 /\ view.filteredExpense = 40 /\ view.filteredBalance = 0 - 40

\* C8: filtering the filter's output again with the same bounds returns it
\* unchanged.
C8_FilterIdempotent ==
    Detail =>
        filteredTransactions(view.list, filterFromDate, filterToDate) = view.list

C8_Witness ==
    /\ Detail
    /\ filterFromDate # <<>> /\ filterToDate # <<>>
    /\ Len(transactions) = 2
    /\ Len(view.list) = 1
    /\ filteredTransactions(view.list, filterFromDate, filterToDate) = view.list

\* C5: on every detail screen the net balance is total income minus total
\* expense over all fetched transactions and the filtered balance is
\* filtered income minus filtered expense; both may be negative.
C5_NetIsIncomeMinusExpense ==
    Detail =>
        /\ view.balance = view.totalIncome - view.totalExpense
        /\ view.balance = SumWhere(transactions, INCOME) - SumWhere(transactions, EXPENSE)
        /\ view.filteredBalance = view.filteredIncome - view.filteredExpense
        /\ view.filteredBalance = SumWhere(view.list, INCOME) - SumWhere(view.list, EXPENSE)

C5_Witness ==
    /\ Detail
    /\ view.totalIncome = 0 /\ view.totalExpense = 40
    /\ view.balance = 0 - 40
    /\ view.showFilteredSums
    /\ view.filteredBalance = 0 - 40
    /\ nLoads > 1

\* C6: with a from or to bound set, the count shown with the transaction
\* list is the number of entries that passed the filter.
C6_CountIsOfFilteredSet ==
    (Detail /\ view.showFilteredSums) => view.headerCount = Len(view.list)

\* C9: setting, changing or clearing a bound issues no backend request and
\* leaves the fetched list and the all-transaction income, expense and
\* balance as they were.
FilterStep == filterFromDate' # filterFromDate \/ filterToDate' # filterToDate
C9_FilterChangeHasNoSideEffect ==
    [][FilterStep =>
          /\ UNCHANGED <<backend, transactions, loads, nLoads, mutations, nMutations>>
          /\ UNCHANGED <<property, loading, error>>
          /\ view'.screen = "detail" /\ view.screen = "detail"
          /\ view'.totalIncome = view.totalIncome
          /\ view'.totalExpense = view.totalExpense
          /\ view'.balance = view.balance]_vars

C9_Witness ==
    /\ Detail
    /\ filterFromDate # <<>> /\ filterToDate # <<>>
    /\ Len(view.list) < Len(transactions)
    /\ nLoads = MaxLoads
    /\ loads = {}

\* C10: a row whose category_id is absent or names no category of the list
\* shows "Unknown" and the one neutral colour; a row whose category_id names
\* a category shows that category's name.
KnownCategory(categoryId) ==
    categoryId # <<>> /\ \E i \in 1..Len(categories) : categories[i].id = categoryId[1]
CategoryOf(categoryId) ==
    categories[CHOOSE i \in 1..Len(categories) : categories[i].id = categoryId[1]]

C10_UnknownOrCategoryName ==
    \A i \in 1..Len(diaryRows) :
        LET ref == diaryTransactions[i].category_id
        IN  /\ ~KnownCategory(ref) =>
                diaryRows[i].name = Unknown /\ diaryRows[i].color = NeutralColor
            /\ KnownCategory(ref) => <<diaryRows[i].name>> = CategoryOf(ref).name

\* C10 as amended: a row of a known category shows the category's name when
\* the category has a non-empty name, and "Unknown" when it has none.
C10_UnknownOrNonEmptyCategoryName ==
    /\ Len(diaryRows) = Len(diaryTransactions)
    /\ \A i \in 1..Len(diaryRows) :
        LET ref == diaryTransactions[i].category_id
        IN  /\ ~KnownCategory(ref) =>
                diaryRows[i].name = Unknown /\ diaryRows[i].color = NeutralColor
            /\ (KnownCategory(ref) /\ CategoryOf(ref).name # <<>>) =>
                <<diaryRows[i].name>> = CategoryOf(ref).name
            /\ (KnownCategory(ref) /\ CategoryOf(ref).name = <<>>) =>
                diaryRows[i].name = Unknown

C10_Witness ==
    /\ Len(diaryRows) = 2
    /\ Len(categories) = 2
    /\ diaryTransactions[1].category_id = <<UnknownCategoryId>>
    /\ diaryRows[1].name = Unknown /\ diaryRows[1].color = NeutralColor
    /\ KnownCategory(diaryTransactions[2].category_id)
    /\ diaryRows[2].name = "Salary"

\* C12: the kind of a record is fixed at creation: an update request that
\* leaves an edit form either carries no kind or carries the kind the edited
\* record already has.
C12_UpdateKeepsKind ==
    [][(request = <<>> /\ request' # <<>> /\ request'[1].op = "update") =>
           (request'[1].type = <<>> \/ request'[1].type[1] = editing[1].type)]_vars

\* C13: no form sends a request whose name is empty after trimming, and no
\* form with an amount field sends one whose amount is not a number greater
\* than 0.
C13_NoRequestWithBadNameOrAmount ==
    request # <<>> =>
        /\ Trim(request[1].name) # ""
        /\ request[1].modal \in {TRANSACTION, REALESTATE} =>
               request[1].amount # <<>> /\ request[1].amount[1] > 0

\* C20: in the transaction form's create mode a selected category is a
\* category of the list whose kind is the selected kind, and every create
\* request the form sends carries a category of the kind it carries.
CategoryHasKind(categoryId, type) ==
    \E i \in 1..Len(categories) :
        <<categories[i].id>> = categoryId /\ categories[i].type = type

C20_CreateCategoryMatchesKind ==
    /\ (modal = TRANSACTION /\ isOpen /\ editing = <<>> /\ formData.category_id # <<>>) =>
           CategoryHasKind(formData.category_id, formData.type)
    /\ (request # <<>> /\ request[1].modal = TRANSACTION /\ request[1].op = "create") =>
           CategoryHasKind(request[1].category_id, request[1].type[1])

C20_Witness ==
    /\ modal = TRANSACTION
    /\ request # <<>> /\ request[1].op = "create"
    /\ request[1].type = <<INCOME>>
    /\ Len(categories) = MaxCategories
    /\ categories[1].type = EXPENSE
    /\ CategoryHasKind(request[1].category_id, INCOME)

\* C14: every request leaves with the credential 'Bearer <t>' for the
\* auth_token t that browser storage holds when the request is issued, and
\* with the empty credential when storage holds none; so a request issued
\* after logout, which empties storage, does not carry the earlier token.
Authorization(stored) == IF stored = <<>> THEN "" ELSE "Bearer " \o stored[1]

C15_LoginAllOrNothing ==
    [][loginResult' # loginResult =>
           LET res == loginResult'[1]
           IN  /\ res.resolved <=>
                      (res.response # <<>> /\ res.response[1].token # <<>>
                                           /\ res.response[1].user # <<>>)
               /\ res.resolved =>
                      /\ user' = res.response[1].user
                      /\ token' = res.response[1].token
                      /\ auth_token' = res.response[1].token
               /\ ~res.resolved => UNCHANGED <<user, token, auth_token>>]_vars

C15_Witness ==
    /\ loginResult # <<>>
    /\ loginResult[1].resolved
    /\ loginResult[1].id = 2
    /\ user = loginResult[1].response[1].user
    /\ token = <<"t2">> /\ auth_token = <<"t2">>

\* C16: from logout until the next call of login or register the session is
\* unauthenticated: user null, token null, nothing stored, whatever requests
\* were in flight when logout ran.
C16_StaysLoggedOut ==
    loggedOut => (user = <<>> /\ token = <<>> /\ auth_token = <<>>)

\* C17: on start-up loading eventually becomes false.  With nothing stored
\* the mount effect makes it false at once and leaves user and token null;
\* with a stored token the profile is fetched with it, and when the fetch
\* settles loading is false and either user is set or the stored auth_token
\* is removed and the in-memory token is null.
C17_StartupSettles ==
    /\ <>(~authLoading)
    /\ [][(~authMounted /\ authMounted' /\ auth_token = <<>>) =>
              (~authLoading' /\ user' = <<>> /\ token' = <<>>)]_vars
    /\ [][(~authMounted /\ authMounted' /\ auth_token # <<>>) =>
              (/\ authLoading'
               /\ \E r \in authRequests' :
                      r.kind = "profile" /\ r.credential = Authorization(auth_token))]_vars
    /\ [][(authMounted /\ authLoading /\ ~authLoading') =>
              (user' # <<>> \/ (auth_token' = <<>> /\ token' = <<>>))]_vars

C17_Witness ==
    /\ authMounted /\ ~authLoading
    /\ nAuthRequests = 0
    /\ authRequests = {}
    /\ user # <<>> /\ token = <<"t1">> /\ auth_token = <<"t1">>

\* C18: a submit of the accept-invitation form sends the request only when
\* the password equals its confirmation and has at least 6 characters, and
\* then with that password and the URL's token; otherwise it sends nothing,
\* shows an error and leaves the form not loading.  With no token in the URL
\* the page is left for the login redirect and never shows a mounted form.
PasswordAcceptable ==
    /\ inviteForm.password = inviteForm.confirmPassword
    /\ Len(inviteForm.password) >= 6

C19_RedirectShowsLoginWithMessage ==
    [][redirectTimers' < redirectTimers =>
           (route' = LANDING /\ showLogin' /\ message' = ActivatedMessage)]_vars

(***************************************************************************)
(* C21: on the property page, once every load and every create or delete    *)
(* request has completed and the detail screen is shown, the displayed      *)
(* list and totals are those of the server's list as it is after the last   *)
(* successful mutation: a late answer of an older reload never replaces a   *)
(* newer one.                                                               *)
(***************************************************************************)
C21_SettledPageShowsLatestSnapshot ==
    (loads = {} /\ mutations = {} /\ view.screen = "detail") =>
        view = Render(backend, TRUE, FALSE, <<>>, filterFromDate, filterToDate)

(***************************************************************************)
(* C22: the transaction-list request sent for page p of the Spending Diary  *)
(* asks for limit 10 and for the slice that starts at (p - 1) * 10, so that *)
(* different pages ask for different, consecutive slices.  A request        *)
(* without an offset asks for the slice that starts at 0.                   *)
(***************************************************************************)
RequestedOffset(req) == IF req.offset = <<>> THEN 0 ELSE req.offset[1]

C22_PageRequestsItsSlice ==
    listRequest # <<>> =>
        /\ listRequest[1].limit = <<PageLimit>>
        /\ RequestedOffset(listRequest[1]) = (page - 1) * PageLimit

(***************************************************************************)
(* C23: the transaction-list request carries each active filter of the      *)
(* Spending Diary (a kind other than ALL, a category, a from date, a to     *)
(* date) and omits a filter left at its default.                            *)
(***************************************************************************)
RequestProperty(req, key) == IF key \in DOMAIN req THEN req[key] ELSE <<>>

C23_RequestCarriesActiveFilters ==
    listRequest # <<>> =>
        /\ RequestProperty(listRequest[1], "type") =
               (IF typeFilter = ALL THEN <<>> ELSE <<typeFilter>>)
        /\ RequestProperty(listRequest[1], "categoryId") = categoryFilter
        /\ RequestProperty(listRequest[1], "fromDate") = dateFromFilter
        /\ RequestProperty(listRequest[1], "toDate") = dateToFilter

(***************************************************************************)
(* C24: in every state of the auth provider after its mount effect, under   *)
(* any interleaving of login, register, logout and the answers to profile   *)
(* fetches, a user that is set implies an in-memory token that is set, and  *)
(* the in-memory token is set exactly when browser storage holds an         *)
(* auth_token.                                                              *)
(***************************************************************************)
C24_UserTokenStorageAgree ==
    authMounted =>
        /\ user # <<>> => token # <<>>
        /\ token # <<>> <=> auth_token # <<>>

(***************************************************************************)
(* C25: in the Spending Diary, once every statistics request has completed  *)
(* and none has failed, the monthly summary shown is the one the server     *)
(* returned for the month and year now selected: a late answer for an       *)
(* earlier selection never overwrites it.                                   *)
(***************************************************************************)
C25_SettledSummaryIsOfSelectedMonth ==
    (statsRequests = {} /\ ~statsErrorLogged) =>
        monthlyStats = <<StatsOf(currentYear, currentMonth)>>

====
